---- MODULE Spec2Model ----
(***************************************************************************)
(* A model of deepseek_export.py: the filename sanitizer, the thread       *)
(* filename format and the export routine export_threads.                  *)
(*                                                                         *)
(* Text is modelled as a sequence of character codes, so that every string *)
(* operation of the source (replace, re.sub, strip, splitext, slicing,     *)
(* re.findall, int) is computed on the characters as the source computes   *)
(* it.                                                                     *)
(***************************************************************************)
EXTENDS Integers, Sequences, FiniteSets, TLC

VARIABLES
    pc,                     \* the position in the routine being run
    call,                   \* sanitize_filename / filename format: the arguments
    ret,                    \* sanitize_filename / filename format: the value returned
    input_file,             \* export_threads: the input file, its kind and its document
    data,                   \* export_threads: the parsed document
    max_threads,            \* export_threads: parameter (0 models None)
    max_messages_per_file,  \* export_threads: parameter (0 models None)
    thread_idx,             \* export_threads: enumerate(data, 1), the next position
    folder,                 \* file system: whether the export folder exists
    fs,                     \* file system: the files of the export folder
    total_threads,
    total_messages,
    stats,
    all_messages,           \* the turns of the thread processed last, as written out
    thread_messages,        \* the message count of the thread processed last
    result                  \* what export_threads returned

vars == <<pc, call, ret, input_file, data, max_threads, max_messages_per_file,
          thread_idx, folder, fs, total_threads, total_messages, stats,
          all_messages, thread_messages, result>>

exportVars == <<input_file, data, max_threads, max_messages_per_file, thread_idx,
                folder, fs, total_threads, total_messages, stats, all_messages,
                thread_messages, result>>

(***************************************************************************)
(* Characters.                                                             *)
(***************************************************************************)
SPACE == 32
UNDERSCORE == 95
DOT == 46
SLASH == 47
DEL == 127

\* the class [<>:"/\\|?*] of line 23
UnsafeChars == {60, 62, 58, 34, 47, 92, 124, 63, 42}

\* the class [\x00-\x1f\x7f] of line 24
ControlChars == (0..31) \cup {DEL}

\* the argument '._ ' of strip, line 25
StripSet == {DOT, UNDERSCORE, SPACE}

\* 'unnamed_thread', line 38
FallbackName == <<117, 110, 110, 97, 109, 101, 100, 95, 116, 104, 114, 101, 97, 100>>

\* the length limit of line 31
MaxNameLen == 200

(***************************************************************************)
(* Python string primitives.                                               *)
(***************************************************************************)
Min2(a, b) == IF a <= b THEN a ELSE b

Max2(a, b) == IF a >= b THEN a ELSE b

\* s[:k], k may be negative (then it counts from the end)
SliceTo(s, k) ==
    IF k >= 0 THEN SubSeq(s, 1, Min2(k, Len(s)))
    ELSE SubSeq(s, 1, Max2(Len(s) + k, 0))

\* s[k:] for a 0-based k >= 0
SliceFrom(s, k) == SubSeq(s, k + 1, Len(s))

\* str.replace(old, new) for single characters
ReplaceChar(s, old, new) ==
    [i \in 1..Len(s) |-> IF s[i] = old THEN new ELSE s[i]]

\* re.sub of a one-character class by a one-character replacement
SubClass(s, class, new) ==
    [i \in 1..Len(s) |-> IF s[i] \in class THEN new ELSE s[i]]

\* re.sub of a one-character class by the empty string
RemoveClass(s, class) == SelectSeq(s, LAMBDA c : c \notin class)

\* str.strip(chars)
StripChars(s, chars) ==
    IF \A i \in 1..Len(s) : s[i] \in chars THEN <<>>
    ELSE LET first == CHOOSE i \in 1..Len(s) :
                        s[i] \notin chars /\ \A j \in 1..(i - 1) : s[j] \in chars
             last == CHOOSE i \in 1..Len(s) :
                        s[i] \notin chars /\ \A j \in (i + 1)..Len(s) : s[j] \in chars
         IN  SubSeq(s, first, last)

\* re.sub(r'_+', '_', s): every run of underscores becomes one underscore
CollapseUnderscores(s) ==
    LET keep == SelectSeq([i \in 1..Len(s) |-> i],
                          LAMBDA i : ~(s[i] = UNDERSCORE /\ i > 1 /\ s[i - 1] = UNDERSCORE))
    IN  [k \in 1..Len(keep) |-> s[keep[k]]]

\* str.rfind of one character, 0-based, -1 when absent
RFind(s, c) ==
    IF \A i \in 1..Len(s) : s[i] # c THEN -1
    ELSE (CHOOSE i \in 1..Len(s) : s[i] = c /\ \A j \in (i + 1)..Len(s) : s[j] # c) - 1

\* os.path.splitext: the extension starts at the last dot of the last path
\* component, unless only dots precede it there
SplitExt(p) ==
    LET sepIndex == RFind(p, SLASH)
        dotIndex == RFind(p, DOT)
    IN  IF dotIndex > sepIndex
           /\ \E k \in (sepIndex + 1)..(dotIndex - 1) : p[k + 1] # DOT
        THEN <<SliceTo(p, dotIndex), SliceFrom(p, dotIndex)>>
        ELSE <<p, <<>>>>

(***************************************************************************)
(* sanitize_filename, lines 15-40, step by step.                           *)
(***************************************************************************)
\* lines 19-20
ReplaceSpaces(filename, replace_spaces) ==
    IF replace_spaces THEN ReplaceChar(filename, SPACE, UNDERSCORE) ELSE filename

\* ReplaceUnsafe with the character | left out of the class
ReplaceUnsafeNoPipe(filename) == SubClass(filename, UnsafeChars \ {124}, UNDERSCORE)

\* line 23
ReplaceUnsafe(filename) == SubClass(filename, UnsafeChars, UNDERSCORE)

\* line 24
RemoveControl(filename) == RemoveClass(filename, ControlChars)

\* line 25
StripEdges(filename) == StripChars(filename, StripSet)

\* lines 31-34
Truncate(filename) ==
    IF Len(filename) > MaxNameLen
    THEN LET parts == SplitExt(filename)
             name == SliceTo(parts[1], MaxNameLen - Len(parts[2]))
         IN  name \o parts[2]
    ELSE filename

\* Fallback without the test for the empty name
FallbackOnlyUnderscore(filename) ==
    IF filename = <<UNDERSCORE>> THEN FallbackName ELSE filename

\* lines 37-38
Fallback(filename) ==
    IF filename = <<>> \/ filename = <<UNDERSCORE>> THEN FallbackName ELSE filename

sanitize_filename(filename, replace_spaces) ==
    Fallback(Truncate(CollapseUnderscores(StripEdges(RemoveControl(
        ReplaceUnsafe(ReplaceSpaces(filename, replace_spaces)))))))

(***************************************************************************)
(* Bounded sets of strings.                                                *)
(***************************************************************************)
\* all sequences over S of length at most n
SeqsUpTo(S, n) == UNION {[1..k -> S] : k \in 0..n}

\* n copies of the character c
Fill(c, n) == [i \in 1..n |-> c]

\* the state of export_threads while another routine is modelled
ExportIdle ==
    /\ input_file = [kind |-> "none"]
    /\ data = [kind |-> "other"]
    /\ max_threads = 0
    /\ max_messages_per_file = 0
    /\ thread_idx = 1
    /\ folder = FALSE
    /\ fs = <<>>
    /\ total_threads = 0
    /\ total_messages = 0
    /\ stats = <<>>
    /\ all_messages = <<>>
    /\ thread_messages = 0
    /\ result = "running"

(***************************************************************************)
(* sanitize_filename as a routine: the argument is drawn, the call returns.*)
(* Short names range over every character class of the source; long names *)
(* are head + a run of one character + tail, with lengths around the limit *)
(* of line 31.                                                             *)
(***************************************************************************)
MaxShort == 3
MaxHead == 2
MaxTail == 1
MaxPad == 2

\* letters, the digit 0, every unsafe character, the stripped characters,
\* control characters
ShortAlphabet == {97, 48} \cup UnsafeChars \cup StripSet \cup {0, 9, 31, DEL}

LongAlphabet == {97, DOT, UNDERSCORE}

ShortNames == SeqsUpTo(ShortAlphabet, MaxShort)

LongNames ==
    {h \o Fill(c, n) \o t :
        h \in SeqsUpTo(LongAlphabet, MaxHead),
        c \in LongAlphabet \cup {SPACE},
        n \in (MaxNameLen - 3)..(MaxNameLen + MaxPad),
        t \in SeqsUpTo({97, DOT}, MaxTail)}

InitSanitize ==
    /\ pc = "call"
    /\ call \in [filename : ShortNames \cup LongNames, replace_spaces : BOOLEAN]
    /\ ret = <<>>
    /\ ExportIdle

SanitizeCall ==
    /\ pc = "call"
    /\ ret' = sanitize_filename(call.filename, call.replace_spaces)
    /\ pc' = "ret"
    /\ UNCHANGED <<call, exportVars>>

NextSanitize == SanitizeCall

SpecSanitize == InitSanitize /\ [][NextSanitize]_vars

(***************************************************************************)
(* The thread filename, line 154, and the index filename, line 121.        *)
(***************************************************************************)
\* the decimal digits of n >= 0
RECURSIVE Digits(_)
Digits(n) == IF n < 10 THEN <<48 + n>> ELSE Digits(n \div 10) \o <<48 + (n % 10)>>

\* the format 03d: zero-padded to at least three digits
Format03d(n) ==
    LET d == Digits(n)
    IN  IF Len(d) < 3 THEN Fill(48, 3 - Len(d)) \o d ELSE d

\* '.md'
MdExt == <<46, 109, 100>>

\* '00_INDEX.md'
IndexName == <<48, 48, 95, 73, 78, 68, 69, 88>> \o MdExt

\* the thread filename with no separator after the number
ThreadFilenameNoSep(idx, title) ==
    Format03d(idx) \o sanitize_filename(title, TRUE) \o MdExt

\* lines 151-154
ThreadFilename(idx, title) ==
    Format03d(idx) \o <<UNDERSCORE>> \o sanitize_filename(title, TRUE) \o MdExt

MaxExp == 3

RECURSIVE Pow10(_)
Pow10(e) == IF e = 0 THEN 1 ELSE 10 * Pow10(e - 1)

\* positions in the input list around every power of ten up to 10^MaxExp
Positions == (UNION {{Pow10(e) - 1, Pow10(e), Pow10(e) + 1} : e \in 0..MaxExp}) \ {0}

\* '', 'x', '0x', '0_x', '00', '0', '_x', 'INDEX', '0_INDEX'
NameTitles ==
    {<<>>, <<120>>, <<48, 120>>, <<48, 95, 120>>, <<48, 48>>, <<48>>, <<95, 120>>,
     <<73, 78, 68, 69, 88>>, <<48, 95, 73, 78, 68, 69, 88>>}

InitName ==
    /\ pc = "format"
    /\ call \in [i : Positions, j : Positions, title_i : NameTitles, title_j : NameTitles]
    /\ ret = <<>>
    /\ ExportIdle

\* the filenames of the entries at positions i and j of one run
FormatNames ==
    /\ pc = "format"
    /\ ret' = <<ThreadFilename(call.i, call.title_i), ThreadFilename(call.j, call.title_j)>>
    /\ pc' = "named"
    /\ UNCHANGED <<call, exportVars>>

NextName == FormatNames

SpecName == InitName /\ [][NextName]_vars

(***************************************************************************)
(* export_threads, lines 90-301.                                           *)
(*                                                                         *)
(* A JSON value is a record with a field kind: "list" (with items),        *)
(* "dict" (with the keys the source reads) or "other" (any value that is   *)
(* neither).  A message key is kept as its leading text and a count of     *)
(* trailing digits 9, and MsgIdText gives its characters.  The modelled    *)
(* inputs are those on which no line of the source raises outside a try    *)
(* block: titles and contents are strings, mappings are objects and        *)
(* fragments are lists; the one exception modelled is a thread whose title *)
(* is no string (null, a number), on which line 151 raises.  The metadata  *)
(* lines (thread id, creation date) and the file sizes written to the      *)
(* index are left out: nothing else reads them.                            *)
(***************************************************************************)
\* the characters of a message key
MsgIdText(id) == id.head \o Fill(57, id.nines)

\* 'root', line 183
RootId == <<114, 111, 111, 116>>

\* str.strip() without argument strips white space
WhiteSpace == {32, 9, 10, 11, 12, 13}

IsDigit(c) == c \in 48..57

\* the value of a string of decimal digits
RECURSIVE DigitsValue(_)
DigitsValue(d) ==
    IF d = <<>> THEN 0
    ELSE 10 * DigitsValue(SubSeq(d, 1, Len(d) - 1)) + (d[Len(d)] - 48)

\* the longest string of digits int() converts (sys.int_info.default_max_str_digits);
\* a longer one raises ValueError
IntMaxStrDigits == 4300

\* re.findall(r'\d+', msg_id)[0]: the first maximal run of digits
FirstDigitRun(text) ==
    LET start == CHOOSE i \in 1..Len(text) :
                    IsDigit(text[i]) /\ \A j \in 1..(i - 1) : ~IsDigit(text[j])
        end == CHOOSE e \in start..Len(text) :
                    /\ (e = Len(text) \/ ~IsDigit(text[e + 1]))
                    /\ \A j \in start..e : IsDigit(text[j])
    IN  SubSeq(text, start, end)

\* lines 205-207: the sort key of a message key, or the exception int() raises
extract_numeric_id(msg_id) ==
    IF \A i \in 1..Len(msg_id) : ~IsDigit(msg_id[i])
    THEN [raises |-> FALSE, inf |-> TRUE, n |-> 0]
    ELSE LET numbers == FirstDigitRun(msg_id)
         IN  IF Len(numbers) > IntMaxStrDigits
             THEN [raises |-> TRUE, inf |-> FALSE, n |-> 0]
             ELSE [raises |-> FALSE, inf |-> FALSE, n |-> DigitsValue(numbers)]

\* a < b for two sort keys (an int or float('inf'))
KeyLess(a, b) == ~a.inf /\ (b.inf \/ a.n < b.n)

\* lines 192-201: the turns of one message's fragments
RECURSIVE FragmentTurns(_, _)
FragmentTurns(msg_id, fragments) ==
    IF fragments = <<>> THEN <<>>
    ELSE LET fragment == Head(fragments)
             rest == FragmentTurns(msg_id, Tail(fragments))
         IN  IF fragment.kind = "dict"
                /\ fragment.content # <<>>
                /\ StripChars(fragment.content, WhiteSpace) # <<>>
             THEN <<[id |-> msg_id, type |-> fragment.type, content |-> fragment.content]>>
                  \o rest
             ELSE rest

\* lines 182-201: all_messages before it is sorted
RECURSIVE ExtractMessages(_)
ExtractMessages(mapping) ==
    IF mapping = <<>> THEN <<>>
    ELSE LET node == Head(mapping)
             rest == ExtractMessages(Tail(mapping))
         IN  IF node.data.kind # "dict" \/ MsgIdText(node.id) = RootId THEN rest
             ELSE IF node.data.message.kind # "dict" THEN rest
             ELSE FragmentTurns(node.id, node.data.message.fragments) \o rest

\* InsertByKey putting the pair before the pairs of equal key
RECURSIVE InsertByKeyUnstable(_, _)
InsertByKeyUnstable(sorted, pair) ==
    IF sorted = <<>> THEN <<pair>>
    ELSE LET last == sorted[Len(sorted)]
         IN  IF ~KeyLess(last.key, pair.key)
             THEN InsertByKeyUnstable(SubSeq(sorted, 1, Len(sorted) - 1), pair) \o <<last>>
             ELSE sorted \o <<pair>>

\* one step of list.sort on the keyed list: the pair goes after every pair
\* whose key is not greater
RECURSIVE InsertByKey(_, _)
InsertByKey(sorted, pair) ==
    IF sorted = <<>> THEN <<pair>>
    ELSE LET last == sorted[Len(sorted)]
         IN  IF KeyLess(pair.key, last.key)
             THEN InsertByKey(SubSeq(sorted, 1, Len(sorted) - 1), pair) \o <<last>>
             ELSE sorted \o <<pair>>

RECURSIVE StableSort(_)
StableSort(pairs) ==
    IF pairs = <<>> THEN <<>>
    ELSE InsertByKey(StableSort(SubSeq(pairs, 1, Len(pairs) - 1)), pairs[Len(pairs)])

\* lines 204-211: list.sort computes the key of every element first, then
\* sorts the keyed list; when a key raises, the list is left as it was and
\* the exception is swallowed
SortMessages(msgs) ==
    LET keyed == [i \in 1..Len(msgs) |->
                    [key |-> extract_numeric_id(MsgIdText(msgs[i].id)), msg |-> msgs[i]]]
    IN  IF \E i \in 1..Len(msgs) : keyed[i].key.raises
        THEN msgs
        ELSE LET sorted == StableSort(keyed)
             IN  [i \in 1..Len(msgs) |-> sorted[i].msg]

\* Heading with every fragment that is no request taken for a response
HeadingTwoWay(type) ==
    IF type = "REQUEST" THEN "### Sie" ELSE "### DeepSeek"

\* lines 222-227
Heading(type) ==
    IF type = "REQUEST" THEN "### Sie"
    ELSE IF type = "RESPONSE" THEN "### DeepSeek"
    ELSE "### " \o type

\* TurnsWritten with the test i > max_messages_per_file
TurnsWrittenOneMore(msgs, limit) ==
    IF limit # 0 /\ Len(msgs) > limit + 1 THEN limit + 1 ELSE Len(msgs)

\* lines 216-220: how many turns the loop writes before it ends or breaks
TurnsWritten(msgs, limit) ==
    IF limit # 0 /\ Len(msgs) > limit THEN limit ELSE Len(msgs)

\* lines 216-229: what the loop writes to the thread file
WriteTurns(msgs, limit) ==
    [i \in 1..TurnsWritten(msgs, limit) |->
        [kind |-> "turn", heading |-> Heading(msgs[i].type), content |-> msgs[i].content]]
    \o (IF limit # 0 /\ Len(msgs) > limit
        THEN <<[kind |-> "notice", remaining |-> Len(msgs) - limit]>>
        ELSE <<>>)

\* line 147: the title, or 'Thread_<position>' when the thread has none
ThreadTitle(thread, idx) ==
    IF thread.title.kind = "missing"
    THEN <<84, 104, 114, 101, 97, 100, 95>> \o Digits(idx)
    ELSE thread.title.text

\* open(path, 'w') and write
WriteFile(files, name, content) ==
    [n \in (DOMAIN files) \cup {name} |-> IF n = name THEN content ELSE files[n]]

\* open(path, 'a') and write
AppendFile(files, name, content) ==
    WriteFile(files, name, (IF name \in DOMAIN files THEN files[name] ELSE <<>>) \o content)

\* LoadFails with the byte order mark accepted
LoadFailsNoBom(kind) == kind \in {"invalid_json", "not_utf8"}

\* lines 97-107: whether reading the input ends in return None.  Invalid JSON
\* and a leading byte order mark raise JSONDecodeError; bytes that are not
\* UTF-8 raise UnicodeDecodeError and raise it again under utf-8-sig
LoadFails(kind) == kind \in {"invalid_json", "bom_json", "not_utf8"}

(***************************************************************************)
(* The inputs of export_threads.                                           *)
(***************************************************************************)
MaxNodes == 2
MaxThreads == 3

\* the message keys '10', '2', 'a2', 'x' and 'root'
MsgIds ==
    {[head |-> <<49, 48>>, nines |-> 0],
     [head |-> <<50>>, nines |-> 0],
     [head |-> <<97, 50>>, nines |-> 0],
     [head |-> <<120>>, nines |-> 0],
     [head |-> RootId, nines |-> 0]}

\* a message key of 4301 digits: '1' followed by 4300 digits 9
LongId == [head |-> <<49>>, nines |-> IntMaxStrDigits]

Fragment(type, content) == [kind |-> "dict", type |-> type, content |-> content]

\* a request; a thought and a response; a fragment that is no object, a blank
\* fragment and a response
FragmentLists ==
    {<<Fragment("REQUEST", <<113>>)>>,
     <<Fragment("THINK", <<116>>), Fragment("RESPONSE", <<114>>)>>,
     <<[kind |-> "other"], Fragment("REQUEST", <<32>>), Fragment("RESPONSE", <<114, 50>>)>>}

\* the values of a mapping: no object, an object without a message, an
\* object with a message
NodeData ==
    {[kind |-> "other"], [kind |-> "dict", message |-> [kind |-> "other"]]}
    \cup {[kind |-> "dict", message |-> [kind |-> "dict", fragments |-> f]] :
            f \in FragmentLists}

Nodes == [id : MsgIds, data : NodeData]

\* a request under the key of 4301 digits
LongNode ==
    [id |-> LongId,
     data |-> [kind |-> "dict", message |->
                 [kind |-> "dict", fragments |-> <<Fragment("REQUEST", <<113>>)>>]]]

\* a JSON object keeps one value per key.  The key of 4301 digits comes
\* alone, or before or after one other key
Mappings ==
    {m \in SeqsUpTo(Nodes, MaxNodes) :
        \A i, j \in 1..Len(m) : i # j => m[i].id # m[j].id}
    \cup {<<LongNode>>}
    \cup {<<LongNode, n>> : n \in Nodes}
    \cup {<<n, LongNode>> : n \in Nodes}

\* a title that is a string
Title(text) == [kind |-> "str", text |-> text]

Thread(title, mapping) == [kind |-> "dict", title |-> title, mapping |-> mapping]

\* the mappings of the threads of a list: a request under '2'; a thought and
\* a response under '10' followed by the request under '2'
ListMappings ==
    LET q == [id |-> [head |-> <<50>>, nines |-> 0],
              data |-> [kind |-> "dict", message |->
                          [kind |-> "dict", fragments |-> <<Fragment("REQUEST", <<113>>)>>]]]
        tr == [id |-> [head |-> <<49, 48>>, nines |-> 0],
               data |-> [kind |-> "dict", message |->
                          [kind |-> "dict", fragments |->
                              <<Fragment("THINK", <<116>>), Fragment("RESPONSE", <<114>>)>>]]]
    IN  {<<q>>, <<tr, q>>}

\* the entries of a list: a value that is no object, threads with no title
\* or the title 'x', and a thread whose title is no string
ListEntries ==
    {[kind |-> "other"]}
    \cup {Thread([kind |-> "missing"], m) : m \in ListMappings}
    \cup {Thread(Title(<<120>>), m) : m \in ListMappings}
    \cup {Thread([kind |-> "other"], <<>>)}

\* the documents: a list of entries, one thread object (titled 'x' with any
\* mapping, or with the empty title), or a value that is neither
Documents ==
    {[kind |-> "list", items |-> l] : l \in SeqsUpTo(ListEntries, MaxThreads)}
    \cup {Thread(Title(<<120>>), m) : m \in Mappings}
    \cup {Thread(Title(<<>>), m) : m \in ListMappings}
    \cup {[kind |-> "other"]}

\* the values of max_threads and max_messages_per_file; 0 stands for None
Limits == {0, 1, 2}

InputFiles ==
    [kind : {"json"}, doc : Documents]
    \cup [kind : {"invalid_json", "bom_json", "not_utf8"}, doc : {[kind |-> "other"]}]

Init ==
    /\ pc = "load"
    /\ call = <<>>
    /\ ret = <<>>
    /\ input_file \in InputFiles
    /\ max_threads \in Limits
    /\ max_messages_per_file \in Limits
    \* max_threads is drawn for the lists, where it decides something, and
    \* the larger message limit for the single threads, which have more turns
    /\ (input_file.doc.kind # "list" => max_threads = 0)
    /\ (input_file.doc.kind = "list" => max_messages_per_file < 2)
    /\ data = [kind |-> "other"]
    /\ thread_idx = 1
    /\ folder = FALSE
    /\ fs = <<>>
    /\ total_threads = 0
    /\ total_messages = 0
    /\ stats = <<>>
    /\ all_messages = <<>>
    /\ thread_messages = 0
    /\ result = "running"

(***************************************************************************)
(* The steps of export_threads.                                            *)
(***************************************************************************)
\* lines 94-107, the input cannot be read: return None
LoadFailed ==
    /\ pc = "load"
    /\ LoadFails(input_file.kind)
    /\ result' = "None"
    /\ pc' = "done"
    /\ UNCHANGED <<call, ret, input_file, data, max_threads, max_messages_per_file,
                   thread_idx, folder, fs, total_threads, total_messages, stats,
                   all_messages, thread_messages>>

\* lines 94-96, the input is read
Load ==
    /\ pc = "load"
    /\ ~LoadFails(input_file.kind)
    /\ data' = input_file.doc
    /\ pc' = "setup"
    /\ UNCHANGED <<call, ret, input_file, max_threads, max_messages_per_file,
                   thread_idx, folder, fs, total_threads, total_messages, stats,
                   all_messages, thread_messages, result>>

\* lines 109-134: the folder, the counters, the head of the index, and a
\* document that is no list becomes a list of one entry
Setup ==
    /\ pc = "setup"
    /\ folder' = TRUE
    /\ total_threads' = 0
    /\ total_messages' = 0
    /\ stats' = <<>>
    /\ fs' = WriteFile(fs, IndexName,
                <<[kind |-> "head",
                   threads |-> IF data.kind = "list" THEN Len(data.items) ELSE 1]>>)
    /\ data' = IF data.kind = "list" THEN data ELSE [kind |-> "list", items |-> <<data>>]
    /\ thread_idx' = 1
    /\ pc' = "loop"
    /\ UNCHANGED <<call, ret, input_file, max_threads, max_messages_per_file,
                   all_messages, thread_messages, result>>

\* lines 137-139: the loop is left at max_threads
LoopBreak ==
    /\ pc = "loop"
    /\ thread_idx <= Len(data.items)
    /\ max_threads # 0 /\ thread_idx > max_threads
    /\ pc' = "totals"
    /\ UNCHANGED <<call, ret, input_file, data, max_threads, max_messages_per_file,
                   thread_idx, folder, fs, total_threads, total_messages, stats,
                   all_messages, thread_messages, result>>

\* line 137: the list is exhausted
LoopEnd ==
    /\ pc = "loop"
    /\ thread_idx > Len(data.items)
    /\ pc' = "totals"
    /\ UNCHANGED <<call, ret, input_file, data, max_threads, max_messages_per_file,
                   thread_idx, folder, fs, total_threads, total_messages, stats,
                   all_messages, thread_messages, result>>

\* SkipEntry leaving the loop instead of going on
SkipEntryStops ==
    /\ pc = "loop"
    /\ thread_idx <= Len(data.items)
    /\ ~(max_threads # 0 /\ thread_idx > max_threads)
    /\ data.items[thread_idx].kind # "dict"
    /\ pc' = "totals"
    /\ UNCHANGED <<call, ret, input_file, data, max_threads, max_messages_per_file,
                   thread_idx, folder, fs, total_threads, total_messages, stats,
                   all_messages, thread_messages, result>>

\* lines 141-143: an entry that is no object is skipped
SkipEntry ==
    /\ pc = "loop"
    /\ thread_idx <= Len(data.items)
    /\ ~(max_threads # 0 /\ thread_idx > max_threads)
    /\ data.items[thread_idx].kind # "dict"
    /\ thread_idx' = thread_idx + 1
    /\ UNCHANGED <<pc, call, ret, input_file, data, max_threads, max_messages_per_file,
                   folder, fs, total_threads, total_messages, stats,
                   all_messages, thread_messages, result>>

\* lines 145-151: the title of the thread is no string, sanitize_filename
\* raises AttributeError and export_threads is left by the exception, before
\* the thread file is opened
ExportRaises ==
    /\ pc = "loop"
    /\ thread_idx <= Len(data.items)
    /\ ~(max_threads # 0 /\ thread_idx > max_threads)
    /\ data.items[thread_idx].kind = "dict"
    /\ data.items[thread_idx].title.kind = "other"
    /\ result' = "raised"
    /\ pc' = "raised"
    /\ UNCHANGED <<call, ret, input_file, data, max_threads, max_messages_per_file,
                   thread_idx, folder, fs, total_threads, total_messages, stats,
                   all_messages, thread_messages>>

\* line 231 counting every extracted message, written or not
AddMessagesAll(total, msgs, limit) == total + Len(msgs)

\* lines 230-231: one more message for every turn written
AddMessages(total, msgs, limit) == total + TurnsWritten(msgs, limit)

\* lines 145-254: one thread is written to its file, to stats and to the index
ExportThread ==
    /\ pc = "loop"
    /\ thread_idx <= Len(data.items)
    /\ ~(max_threads # 0 /\ thread_idx > max_threads)
    /\ data.items[thread_idx].kind = "dict"
    /\ data.items[thread_idx].title.kind # "other"
    /\ LET thread == data.items[thread_idx]
           title == ThreadTitle(thread, thread_idx)
           filename == ThreadFilename(thread_idx, title)
           msgs == SortMessages(ExtractMessages(thread.mapping))
           count == AddMessages(0, msgs, max_messages_per_file)
           content == <<[kind |-> "title", title |-> title, filename |-> filename]>>
                      \o WriteTurns(msgs, max_messages_per_file)
                      \o <<[kind |-> "statistics", messages |-> count]>>
           entry == [kind |-> "row", idx |-> thread_idx, filename |-> filename,
                     title |-> title, messages |-> count]
       IN  /\ all_messages' = msgs
           /\ thread_messages' = count
           /\ total_messages' = AddMessages(total_messages, msgs, max_messages_per_file)
           /\ stats' = Append(stats, entry)
           /\ total_threads' = total_threads + 1
           /\ fs' = AppendFile(WriteFile(fs, filename, content), IndexName, <<entry>>)
    /\ thread_idx' = thread_idx + 1
    /\ UNCHANGED <<pc, call, ret, input_file, data, max_threads, max_messages_per_file,
                   folder, result>>

\* lines 256-301: the totals are appended to the index, the folder is returned
WriteTotals ==
    /\ pc = "totals"
    /\ fs' = AppendFile(fs, IndexName,
                <<[kind |-> "totals", threads |-> total_threads,
                   messages |-> total_messages]>>)
    /\ result' = "folder"
    /\ pc' = "done"
    /\ UNCHANGED <<call, ret, input_file, data, max_threads, max_messages_per_file,
                   thread_idx, folder, total_threads, total_messages, stats,
                   all_messages, thread_messages>>

Next ==
    \/ LoadFailed
    \/ Load
    \/ Setup
    \/ LoopBreak
    \/ LoopEnd
    \/ SkipEntry
    \/ ExportRaises
    \/ ExportThread
    \/ WriteTotals

Spec == Init /\ [][Next]_vars

(***************************************************************************)
(* Claims about sanitize_filename.                                         *)
(***************************************************************************)
\* C1: for every input string the returned name has at most 200 characters.
C1_LengthBounded == pc = "ret" => Len(ret) <= MaxNameLen

\* C2: the returned name contains none of < > : " / \ | ? * and no control
\* character (codes 0-31 and 127); with replace_spaces = True it contains no
\* space either.
C2_NoUnsafeChars ==
    pc = "ret" =>
        \A i \in 1..Len(ret) :
            /\ ret[i] \notin {60, 62, 58, 34, 47, 92, 124, 63, 42}
            /\ ~(ret[i] \in 0..31 \/ ret[i] = 127)
            /\ (call.replace_spaces => ret[i] # 32)

\* C2 witness: a name holding an unsafe character, a control character and a
\* space between letters was sanitized with replace_spaces = True, and part
\* of it was kept.
C2_Witness ==
    /\ pc = "ret"
    /\ call.replace_spaces
    /\ \E i, j \in 1..Len(call.filename) :
          /\ i < j
          /\ call.filename[i] = 97
          /\ call.filename[j] = 97
          /\ \E k \in (i + 1)..(j - 1) :
                call.filename[k] \in {60, 62, 58, 34, 47, 92, 124, 63, 42, 32, 0, 9, 31, 127}
    /\ Len(ret) >= 2
    /\ ret # FallbackName

\* every character of s is replaced by an underscore, removed as a control
\* character, or stripped as a dot, underscore or space
NothingRemains(s) ==
    \A i \in 1..Len(s) :
        \/ s[i] \in {60, 62, 58, 34, 47, 92, 124, 63, 42}
        \/ s[i] \in 0..31 \/ s[i] = 127
        \/ s[i] \in {46, 95, 32}

\* C3: the result is never empty, and it is 'unnamed_thread' whenever
\* nothing remains after the unsafe characters are replaced, the control
\* characters removed and the leading and trailing dots, underscores and
\* spaces stripped (a single underscore cannot remain: it is stripped).
C3_NeverEmpty ==
    pc = "ret" =>
        /\ ret # <<>>
        /\ (NothingRemains(call.filename) => ret = FallbackName)

\* C3 witness: a non-empty name of which nothing remains was sanitized.
C3_Witness ==
    /\ pc = "ret"
    /\ call.filename # <<>>
    /\ NothingRemains(call.filename)
    /\ ret = FallbackName

(***************************************************************************)
(* Claims about the thread filename.                                       *)
(***************************************************************************)
\* C10: for any two different positions of the input list the filenames
\* '<position, zero-padded to 3 digits>_<sanitized title>.md' are distinct,
\* whatever the titles, and none equals the index filename '00_INDEX.md'.
C10_DistinctFilenames ==
    pc = "named" =>
        /\ (call.i # call.j => ret[1] # ret[2])
        /\ ret[1] # <<48, 48, 95, 73, 78, 68, 69, 88, 46, 109, 100>>
        /\ ret[2] # <<48, 48, 95, 73, 78, 68, 69, 88, 46, 109, 100>>

\* C10 witness: two entries with the same title, one at a position above
\* 999, were given their filenames.
C10_Witness ==
    /\ pc = "named"
    /\ call.i < 1000
    /\ call.j > 999
    /\ call.title_i = call.title_j
    /\ ret[1] # ret[2]

(***************************************************************************)
(* Claims about export_threads.                                            *)
(***************************************************************************)
\* the loop has been entered and no exception has left it
Exporting == pc \in {"loop", "totals", "done"} /\ result # "None"

\* a thread the export can write: an object whose title, if any, is a string
IsThread(entry) == entry.kind = "dict" /\ entry.title.kind # "other"

\* the thread of the last loop iteration, when that iteration exported one
LastExported ==
    /\ Exporting
    /\ thread_idx > 1
    /\ IsThread(data.items[thread_idx - 1])

LastThread == data.items[thread_idx - 1]

LastFilename == ThreadFilename(thread_idx - 1, ThreadTitle(LastThread, thread_idx - 1))

\* the turns of a file, in the order written
FileTurns(name) == SelectSeq(fs[name], LAMBDA r : r.kind = "turn")

FileNotices(name) == SelectSeq(fs[name], LAMBDA r : r.kind = "notice")

IndexRows == SelectSeq(fs[IndexName], LAMBDA r : r.kind = "row")

\* a string of digits without its leading zeros
NoLeadingZeros(d) ==
    IF \A i \in 1..Len(d) : d[i] = 48 THEN <<>>
    ELSE SubSeq(d, CHOOSE i \in 1..Len(d) : d[i] # 48 /\ \A j \in 1..(i - 1) : d[j] = 48,
                Len(d))

\* the first integer embedded in a message key: its digits without leading
\* zeros, or none
FirstInteger(id) ==
    LET text == MsgIdText(id)
    IN  IF \A i \in 1..Len(text) : text[i] \notin 48..57
        THEN [none |-> TRUE, digits |-> <<>>]
        ELSE [none |-> FALSE, digits |-> NoLeadingZeros(FirstDigitRun(text))]

\* a < b for two integers given by their digits
DigitsLess(a, b) ==
    \/ Len(a) < Len(b)
    \/ /\ Len(a) = Len(b)
       /\ \E i \in 1..Len(a) : a[i] < b[i] /\ \A j \in 1..(i - 1) : a[j] = b[j]

\* the turn at p comes before the turn at q in the order of the claim: a
\* smaller integer first, no integer last, equal ones in the original order
Before(ext, p, q) ==
    LET a == FirstInteger(ext[p].id)
        b == FirstInteger(ext[q].id)
    IN  \/ ~a.none /\ b.none
        \/ ~a.none /\ ~b.none /\ DigitsLess(a.digits, b.digits)
        \/ a.none = b.none /\ a.digits = b.digits /\ p < q

\* the place of the turn at q in the order of the claim
Rank(ext, q) == 1 + Cardinality({p \in 1..Len(ext) : Before(ext, p, q)})

\* msgs is ext in the order of the claim
InClaimedOrder(msgs, ext) ==
    /\ Len(msgs) = Len(ext)
    /\ \A q \in 1..Len(ext) : msgs[Rank(ext, q)] = ext[q]

\* the file holds the first turns of msgs, in their order
FileFollows(name, msgs) ==
    /\ Len(FileTurns(name)) <= Len(msgs)
    /\ \A j \in 1..Len(FileTurns(name)) : FileTurns(name)[j].content = msgs[j].content

\* int() converts the first integer of every key of the thread
KeysConvert(ext) ==
    \A q \in 1..Len(ext) :
        \/ FirstInteger(ext[q].id).none
        \/ Len(FirstDigitRun(MsgIdText(ext[q].id))) <= 4300

\* the extracted turns in the order of the claim
RECURSIVE ClaimedOrderFrom(_, _)
ClaimedOrderFrom(ext, k) ==
    IF k > Len(ext) THEN <<>>
    ELSE <<ext[CHOOSE q \in 1..Len(ext) : Rank(ext, q) = k]>> \o ClaimedOrderFrom(ext, k + 1)

\* C4, as stated: in every thread file the turns are in non-decreasing order
\* of the first integer of their message key, turns without digits come
\* last, and turns of equal integer keep their mapping and fragment order.
C4_TurnsSorted ==
    LastExported =>
        FileFollows(LastFilename, ClaimedOrderFrom(ExtractMessages(LastThread.mapping), 1))

\* C4, amended: the same when int() converts the first integer of every key
\* (at most 4300 digits); otherwise the sort is given up and the turns are
\* written in mapping and fragment order.
C4_TurnsSortedWhenKeysConvert ==
    LastExported =>
        LET ext == ExtractMessages(LastThread.mapping)
        IN  /\ KeysConvert(ext) => InClaimedOrder(all_messages, ext)
            /\ ~KeysConvert(ext) => all_messages = ext
            /\ FileFollows(LastFilename, all_messages)

\* C4 witness: a thread was written whose turns were not in order in the
\* mapping, with two turns of equal integer and a turn without digits.
C4_Witness ==
    /\ LastExported
    /\ LET ext == ExtractMessages(LastThread.mapping)
       IN  /\ KeysConvert(ext)
           /\ all_messages # ext
           /\ \E p, q \in 1..Len(ext) :
                p # q /\ FirstInteger(ext[p].id) = FirstInteger(ext[q].id)
           /\ \E p \in 1..Len(ext) : FirstInteger(ext[p].id).none
           /\ Len(FileTurns(LastFilename)) = Len(ext)

\* C5, as stated: every turn is written under the user heading (a REQUEST)
\* or the DeepSeek heading (a RESPONSE), and under no other heading.
C5_TwoHeadings ==
    Exporting =>
        \A name \in (DOMAIN fs) \ {IndexName} :
            \A j \in 1..Len(FileTurns(name)) :
                FileTurns(name)[j].heading \in {"### Sie", "### DeepSeek"}

\* C5, amended: a REQUEST is written under the user heading, a RESPONSE
\* under the DeepSeek heading, and a fragment of any other type under a
\* heading made of its type.
C5_HeadingByType ==
    LastExported =>
        /\ FileFollows(LastFilename, all_messages)
        /\ \A j \in 1..Len(FileTurns(LastFilename)) :
            LET type == all_messages[j].type
                heading == FileTurns(LastFilename)[j].heading
            IN  /\ type = "REQUEST" => heading = "### Sie"
                /\ type = "RESPONSE" => heading = "### DeepSeek"
                /\ type \notin {"REQUEST", "RESPONSE"} => heading = "### " \o type

\* C5 witness: a thread with a request, a response and a fragment of
\* another type was written in full.
C5_Witness ==
    /\ LastExported
    /\ Len(FileTurns(LastFilename)) = Len(all_messages)
    /\ \A t \in {"REQUEST", "RESPONSE", "THINK"} :
        \E j \in 1..Len(all_messages) : all_messages[j].type = t

RECURSIVE SumMessages(_)
SumMessages(rows) ==
    IF rows = <<>> THEN 0 ELSE Head(rows).messages + SumMessages(Tail(rows))

\* C6: after every loop iteration and at the end, the index has exactly one
\* row per thread file, each row's message count is the number of turns in
\* that file, total_threads is the number of rows, total_messages is the sum
\* of the rows' counts, stats holds the rows, and the totals written at the
\* end are these two numbers.
C6_IndexConsistent ==
    Exporting =>
        /\ Len(IndexRows) = Cardinality((DOMAIN fs) \ {IndexName})
        /\ {IndexRows[i].filename : i \in 1..Len(IndexRows)} = (DOMAIN fs) \ {IndexName}
        /\ \A i \in 1..Len(IndexRows) :
            IndexRows[i].messages = Len(FileTurns(IndexRows[i].filename))
        /\ total_threads = Len(IndexRows)
        /\ total_messages = SumMessages(IndexRows)
        /\ stats = IndexRows
        /\ pc = "done" =>
            LET last == fs[IndexName][Len(fs[IndexName])]
            IN  /\ last.kind = "totals"
                /\ last.threads = Len(IndexRows)
                /\ last.messages = SumMessages(IndexRows)

\* C6 witness: an export of several threads, one of them cut by the message
\* limit, has completed.
C6_Witness ==
    /\ pc = "done"
    /\ result = "folder"
    /\ Len(IndexRows) >= 2
    /\ total_messages >= 2
    /\ \E name \in (DOMAIN fs) \ {IndexName} : FileNotices(name) # <<>>

\* name starts with the number of position i and an underscore
NumberedAs(name, i) ==
    LET prefix == Format03d(i) \o <<95>>
    IN  Len(name) >= Len(prefix) /\ SubSeq(name, 1, Len(prefix)) = prefix

\* the entry at position s left no file and no row and is not counted
LeftNothing(s) ==
    /\ \A name \in DOMAIN fs : ~NumberedAs(name, s)
    /\ \A r \in 1..Len(IndexRows) : IndexRows[r].idx # s
    /\ total_threads = Cardinality({i \in 1..Len(data.items) :
                                      \E r \in 1..Len(IndexRows) : IndexRows[r].idx = i})

\* the thread at position i has its file and its row, numbered i
ExportedAs(i) ==
    LET name == ThreadFilename(i, ThreadTitle(data.items[i], i))
    IN  /\ NumberedAs(name, i)
        /\ name \in DOMAIN fs
        /\ \E r \in 1..Len(IndexRows) :
            IndexRows[r].idx = i /\ IndexRows[r].filename = name

LimitApplied(name, msgs) ==
    LET N == max_messages_per_file
        M == Len(msgs)
        row == CHOOSE r \in {IndexRows[i] : i \in 1..Len(IndexRows)} : r.filename = name
    IN  /\ Len(FileTurns(name)) <= N
        /\ M > N =>
            /\ Len(FileTurns(name)) = N
            /\ \A j \in 1..N : FileTurns(name)[j].content = msgs[j].content
            /\ FileNotices(name) = <<[kind |-> "notice", remaining |-> M - N]>>
            /\ fs[name][1 + N + 1].kind = "notice"
            /\ row.messages = N
            /\ fs[name][Len(fs[name])] = [kind |-> "statistics", messages |-> N]
        /\ M <= N =>
            /\ Len(FileTurns(name)) = M
            /\ \A j \in 1..M : FileTurns(name)[j].content = msgs[j].content
            /\ FileNotices(name) = <<>>
            /\ row.messages = M

\* C8, as stated: with a limit N > 0 a thread of M > N turns is written as
\* its first N turns in sorted order and one notice of M - N omitted
\* messages, and counts N messages; a thread of M <= N turns is written in
\* full without notice.
C8_LimitSorted ==
    (LastExported /\ max_messages_per_file > 0) =>
        LimitApplied(LastFilename,
                     ClaimedOrderFrom(ExtractMessages(LastThread.mapping), 1))

\* C8, amended: the same with the turns in the order the sort step leaves
\* them in: sorted when int() converts every key (C4), else mapping order.
C8_LimitAfterSortStep ==
    (LastExported /\ max_messages_per_file > 0) =>
        /\ Len(all_messages) = Len(ExtractMessages(LastThread.mapping))
        /\ LimitApplied(LastFilename, all_messages)

\* C8 witness: a thread with more turns than the limit was written.
C8_Witness ==
    /\ LastExported
    /\ max_messages_per_file > 0
    /\ Len(all_messages) > max_messages_per_file + 1
    /\ Len(FileTurns(LastFilename)) = max_messages_per_file
    /\ FileNotices(LastFilename) # <<>>

====
